---- MODULE Spec2Model ----
(***************************************************************************)
(* A model of the connection-pool cache (PostgreSQLClientManager) and of   *)
(* the import path (PostgreSQLVerbaManager.import_document over            *)
(* PostgreSQLManager) of goldenverba.                                      *)
(*                                                                         *)
(* The server is one asyncio event loop: a coroutine runs without          *)
(* interruption until it awaits something that really suspends, so every   *)
(* action below is one such uninterrupted stretch of a handler, from one   *)
(* suspension point to the next.                                           *)
(***************************************************************************)
EXTENDS Integers, Sequences, FiniteSets, TLC

(***************************************************************************)
(* Bounds of the model.                                                    *)
(***************************************************************************)
\* asyncpg.create_pool succeeds at most this many times in one run
MaxPools == 3
\* requests served (calls of connect, clean_up, disconnect) plus clock
\* advances in one run
MaxCalls == 5
\* import_document, delete_document and reset requests served in one run
MaxRequests == 1
\* documents handed to the store in one run, at most: those the readers
\* yield, and those the store is called with directly
MaxDocs == 2

(***************************************************************************)
(* Program constants.                                                      *)
(***************************************************************************)
\* self.max_time: minutes after which a cached pool is expired
max_time == 30
\* self.cleanup_interval: minutes between two sweeps
cleanup_interval == 5
\* Python's None, where a pool is expected (pools are numbered from 1)
None == 0
\* SQL's NULL and Python's None, where a list or a dict is expected
NULL == <<>>

\* minutes by which one clock advance moves datetime.now()
TickSteps == {5, 30}

\* the coroutines that call connect / clean_up / disconnect
ConnTasks == {1, 2}
CleanTasks == {1, 2}
DiscTasks == {1}

\* RAILWAY_POSTGRES_URL (or DATABASE_URL) and RAILWAY_POSTGRES_PASSWORD
EnvUrl == "u1"
EnvKey == "k"
\* the credentials requests arrive with; "" and " " are blank fields
Credentials == [deployment : {"L"}, url : {"", " ", "u1", "u2"}, key : {""}]
DbUrls == {"u1", "u2"}

VARIABLES
    now,            \* datetime.now(), in minutes
    calls,          \* requests served and clock advances so far
    pools,          \* self.pools: the dict's entry slots, in insertion order
    last_cleanup,   \* self.last_cleanup
    managerPool,    \* self.manager.postgresql_manager.pool
    created,        \* the pools asyncpg.create_pool has returned: url, _closed
    schema,         \* the databases in which the verba_config table exists
    conn,           \* the connect coroutines
    peers,          \* per connect call, the calls for the same hash it overlapped
    clean,          \* the clean_up coroutines
    disc,           \* the disconnect coroutines
    lastSweep       \* current_time of the latest sweep that passed the guard

poolVars == <<now, calls, pools, last_cleanup, managerPool, created, schema,
              conn, peers, clean, disc, lastSweep>>

VARIABLES
    documents,      \* the rows of verba_documents: uuid, title, labels
    chunks,         \* the rows of verba_chunks: document_uuid, chunk_id, vector, embedder
    requests,       \* import_document and delete_document requests so far
    loaded,         \* documents the readers have yielded so far
    imp             \* the import_document coroutines

importVars == <<documents, chunks, requests, loaded, imp>>

VARIABLES
    reset,          \* the delete_all coroutine: the statements it has executed
    result          \* what the latest similarity search gave its caller

storeVars == <<reset, result>>

VARIABLES
    production,     \* os.getenv("VERBA_PRODUCTION")
    a,              \* the first tree handed to verify_config
    b,              \* the second tree: what create_config() builds
    verified,       \* what verify_config(a, b) returned, once it was called
    verba_config,   \* the RAG row of verba_config: <<>> or <<its config column>>
    rag             \* the load_rag_config coroutine

configVars == <<production, a, b, verified, verba_config, rag>>

VARIABLES
    credentials,    \* the Credentials objects connect is called with
    cred_hash       \* the cred_hash connect has computed for each of them

hashVars == <<credentials, cred_hash>>

VARIABLES
    document_chunks,    \* the rows of RailwayPostgresManager's document_chunks
    found               \* what the latest vector_search and hybrid_search returned

railwayVars == <<document_chunks, found>>

VARIABLES
    suggestions,        \* the rows of verba_suggestions: query, count
    added               \* the query texts add_suggestion has been called with

suggestVars == <<suggestions, added>>

VARIABLES
    invoked             \* the calls of the stage managers and what came of them

VARIABLES
    upstream,           \* what the generator's stream has still to yield
    sent,               \* the fragments sent to the client with send_json
    full_text,          \* the endpoint's full_text
    reasoning_text      \* the endpoint's reasoning_text

streamVars == <<upstream, sent, full_text, reasoning_text>>

\* the variables of the parts of the model that stand alone
moreVars == <<hashVars, railwayVars, suggestVars, invoked, streamVars>>

\* what the actions of one part of the model leave alone
nonPoolVars == <<importVars, storeVars, configVars, moreVars>>
nonImportVars == <<poolVars, storeVars, configVars, moreVars>>
baseVars == <<poolVars, importVars, storeVars, configVars>>
nonHashVars == <<baseVars, railwayVars, suggestVars, invoked, streamVars>>
nonRailwayVars == <<baseVars, hashVars, suggestVars, invoked, streamVars>>
nonSuggestVars == <<baseVars, hashVars, railwayVars, invoked, streamVars>>
nonManagerVars == <<baseVars, hashVars, railwayVars, suggestVars, streamVars>>
nonStreamVars == <<baseVars, hashVars, railwayVars, suggestVars, invoked>>

vars == <<poolVars, importVars, storeVars, configVars, moreVars>>

(***************************************************************************)
(* The dict self.pools.  CPython keeps a dict's entries in an array in     *)
(* insertion order; deleting a key leaves a hole, assigning to a present   *)
(* key keeps its slot, a new key is appended.                              *)
(***************************************************************************)
DeadSlot == [hash |-> "", pool |-> None, timestamp |-> 0, live |-> FALSE]

LiveIdx(ps) == {i \in DOMAIN ps : ps[i].live}

Has(ps, h) == \E i \in LiveIdx(ps) : ps[i].hash = h

Idx(ps, h) == CHOOSE i \in LiveIdx(ps) : ps[i].hash = h

Entry(ps, h) == ps[Idx(ps, h)]

Keys(ps) == {ps[i].hash : i \in LiveIdx(ps)}

Used(ps) == Cardinality(LiveIdx(ps))

Put(ps, h, p, ts) ==
    LET e == [hash |-> h, pool |-> p, timestamp |-> ts, live |-> TRUE]
    IN  IF Has(ps, h) THEN [ps EXCEPT ![Idx(ps, h)] = e] ELSE Append(ps, e)

Del(ps, h) == [ps EXCEPT ![Idx(ps, h)] = DeadSlot]

\* pool._closed
Closed(p) == created[p].closed

Close(cr, p) == [cr EXCEPT ![p].closed = TRUE]

\* a pool, and not closed
IsOpen(p) == p # None /\ ~Closed(p)

(***************************************************************************)
(* Credentials.                                                            *)
(***************************************************************************)
\* not s or s.strip() == ""
Blank(s) == s \in {"", " "}

\* connect's fallback to the environment for blank url / key
Fallback(c) ==
    [c EXCEPT !.url = IF Blank(c.url) THEN EnvUrl ELSE c.url,
              !.key = IF Blank(c.key) THEN EnvKey ELSE c.key]

hash_credentials(c) == c.deployment \o ":" \o c.url \o ":" \o c.key

IdleConn == [pc |-> "idle", hash |-> "", url |-> "", own |-> None, got |-> None,
             outcome |-> "none", result |-> None, wasOpen |-> FALSE]

IdleClean == [pc |-> "idle", current_time |-> 0, todo |-> <<>>, target |-> None,
              selected |-> {}, removed |-> {}, outcome |-> "none"]

IdleDisc == [pc |-> "idle", pos |-> 0, len |-> 0, used |-> 0, target |-> None,
             snapshot |-> {}, outcome |-> "none"]

PoolInit ==
    /\ now = 0
    /\ calls = 0
    /\ pools = <<>>
    /\ last_cleanup = 0
    /\ managerPool = None
    /\ created = <<>>
    /\ schema = {}
    /\ conn = [t \in ConnTasks |-> IdleConn]
    /\ peers = [t \in ConnTasks |-> {}]
    /\ clean = [t \in CleanTasks |-> IdleClean]
    /\ disc = [t \in DiscTasks |-> IdleDisc]
    /\ lastSweep = -1

(***************************************************************************)
(* PostgreSQLClientManager.connect.  Its one await, self.manager.connect,  *)
(* suspends three times: in asyncpg.create_pool, in _init_schema and in    *)
(* verify_collection.                                                      *)
(***************************************************************************)
InFlight(t) == conn[t].pc # "idle"

\* a request is served by the first coroutine slot that is free
FirstFree(t, tasks, busy(_)) == ~busy(t) /\ \A u \in tasks : u < t => busy(u)

Sweeping(t) == clean[t].pc # "idle"

Disconnecting(t) == disc[t].pc # "idle"

\* the lookup with the key ignored: the pool of the oldest entry
CachedPool_AnyKey(ps, h) == ps[CHOOSE i \in LiveIdx(ps) : \A j \in LiveIdx(ps) : i <= j].pool

\* self.pools[cred_hash]["pool"]
CachedPool(ps, h) == Entry(ps, h).pool

\* connect up to its first suspension: the cache lookup
ConnectCall(t, c) ==
    LET cr == Fallback(c)
        h == hash_credentials(cr)
        rivals == {u \in ConnTasks \ {t} : InFlight(u) /\ conn[u].hash = h}
    IN  /\ FirstFree(t, ConnTasks, InFlight)
        /\ calls < MaxCalls
        /\ calls' = calls + 1
        /\ IF Has(pools, h)
           THEN conn' = [conn EXCEPT ![t] =
                        [IdleConn EXCEPT !.hash = h, !.url = cr.url,
                                         !.outcome = "returned",
                                         !.result = CachedPool(pools, h),
                                         !.wasOpen = IsOpen(CachedPool(pools, h))]]
           ELSE conn' = [conn EXCEPT ![t] =
                        [IdleConn EXCEPT !.pc = "create", !.hash = h, !.url = cr.url]]
        /\ peers' = [u \in ConnTasks |->
                IF u = t THEN IF Has(pools, h) THEN {} ELSE rivals
                ELSE IF u \in rivals /\ ~Has(pools, h) THEN peers[u] \cup {t}
                ELSE peers[u] \ {t}]
        /\ UNCHANGED <<nonPoolVars, now, pools, last_cleanup, managerPool, created,
                       schema, clean, disc, lastSweep>>

\* the exception leaves through every except clause: "raise e"
Raise(t) == [conn[t] EXCEPT !.pc = "idle", !.got = None, !.outcome = "raised"]

\* asyncpg.create_pool returns (self.pool = the new pool) or raises
CreatePoolDone(t, ok) ==
    /\ conn[t].pc = "create"
    /\ IF ok
       THEN /\ Len(created) < MaxPools
            /\ created' = Append(created, [url |-> conn[t].url, closed |-> FALSE])
            /\ managerPool' = Len(created) + 1
            /\ conn' = [conn EXCEPT ![t].pc = "schema", ![t].own = Len(created) + 1]
       ELSE /\ conn' = [conn EXCEPT ![t] = Raise(t)]
            /\ UNCHANGED <<created, managerPool>>
    /\ UNCHANGED <<nonPoolVars, peers, now, calls, pools, last_cleanup, schema, clean, disc, lastSweep>>

\* _init_schema ends; PostgreSQLManager.connect returns self.pool, and
\* PostgreSQLVerbaManager.connect acquires a connection of it to verify
InitSchemaDone(t, ok) ==
    /\ conn[t].pc = "schema"
    /\ IF ok
       THEN /\ schema' = schema \cup {created[conn[t].own].url}
            /\ IF Closed(managerPool)
               THEN /\ conn' = [conn EXCEPT ![t] = Raise(t)]
               ELSE /\ conn' = [conn EXCEPT ![t].pc = "verify", ![t].got = managerPool]
       ELSE /\ conn' = [conn EXCEPT ![t] = Raise(t)]
            /\ UNCHANGED schema
    /\ UNCHANGED <<nonPoolVars, peers, now, calls, pools, last_cleanup, managerPool, created,
                   clean, disc, lastSweep>>

\* what PostgreSQLVerbaManager.connect returns once verify_collection answered
Verified(p, initialized) == IF initialized THEN p ELSE None

\* verify_collection answers; connect caches what it got and returns it
VerifyDone(t) ==
    LET p == Verified(conn[t].got, created[conn[t].got].url \in schema)
    IN  /\ conn[t].pc = "verify"
        /\ pools' = Put(pools, conn[t].hash, p, now)
        /\ conn' = [conn EXCEPT ![t].pc = "idle", ![t].outcome = "returned",
                                ![t].got = None, ![t].result = p,
                                ![t].wasOpen = IsOpen(p)]
        /\ UNCHANGED <<nonPoolVars, peers, now, calls, last_cleanup, managerPool, created, schema,
                       clean, disc, lastSweep>>

(***************************************************************************)
(* PostgreSQLManager.disconnect(pool): which pool it closes, if any.       *)
(***************************************************************************)
DisconnectTarget(cr, mp, p) ==
    IF p # None /\ ~cr[p].closed THEN p
    ELSE IF mp # None /\ ~cr[mp].closed THEN mp
    ELSE None

(***************************************************************************)
(* PostgreSQLClientManager.clean_up.                                       *)
(***************************************************************************)
\* whether an entry of that age is expired
Expired(age) == age > max_time

\* the first loop: pools_to_remove, or AttributeError on a None pool
RECURSIVE Select(_, _, _)
Select(ps, i, cur) ==
    IF i > Len(ps) THEN [err |-> FALSE, list |-> <<>>]
    ELSE IF ~ps[i].live THEN Select(ps, i + 1, cur)
    ELSE LET aged == IF Expired(cur - ps[i].timestamp) THEN <<ps[i].hash>> ELSE <<>>
         IN  IF ps[i].pool = None
             THEN [err |-> TRUE, list |-> aged]
             ELSE LET shut == IF Closed(ps[i].pool) THEN <<ps[i].hash>> ELSE <<>>
                      rest == Select(ps, i + 1, cur)
                  IN  [err |-> rest.err, list |-> aged \o shut \o rest.list]

\* the second loop, up to the next pool.close() that suspends, the end of
\* the list, or a KeyError
RECURSIVE Evict(_, _, _, _, _)
Evict(cr, mp, ps, todo, removed) ==
    IF todo = <<>>
    THEN [status |-> "done", pools |-> ps, todo |-> todo, target |-> None,
          removed |-> removed]
    ELSE IF ~Has(ps, Head(todo))
    THEN [status |-> "KeyError", pools |-> ps, todo |-> todo, target |-> None,
          removed |-> removed]
    ELSE LET tgt == DisconnectTarget(cr, mp, Entry(ps, Head(todo)).pool)
         IN  IF tgt # None
             THEN [status |-> "await", pools |-> ps, todo |-> todo,
                   target |-> tgt, removed |-> removed]
             ELSE Evict(cr, mp, Del(ps, Head(todo)), Tail(todo),
                        removed \cup {Head(todo)})

\* the sweep's state after a stretch that ended as r says
AfterEvict(t, c, r) ==
    /\ pools' = r.pools
    /\ clean' = [clean EXCEPT ![t] =
            [c EXCEPT !.pc = IF r.status = "await" THEN "closing" ELSE "idle",
                      !.todo = r.todo, !.target = r.target,
                      !.removed = r.removed,
                      !.outcome = CASE r.status = "done" -> "swept"
                                    [] r.status = "KeyError" -> "KeyError"
                                    [] OTHER -> "none"]]
    /\ last_cleanup' = IF r.status = "done" THEN c.current_time ELSE last_cleanup

\* whether a call at time cur, with the last sweep recorded at lc, sweeps
Due(cur, lc) == ~(cur - lc < cleanup_interval)

CleanUpCall(t) ==
    /\ FirstFree(t, CleanTasks, Sweeping)
    /\ calls < MaxCalls
    /\ calls' = calls + 1
    /\ IF ~Due(now, last_cleanup)
       THEN /\ clean' = [clean EXCEPT ![t] = [IdleClean EXCEPT
                            !.current_time = now, !.outcome = "skipped"]]
            /\ UNCHANGED <<pools, last_cleanup, lastSweep>>
       ELSE LET sel == Select(pools, 1, now)
                c == [IdleClean EXCEPT !.current_time = now,
                        !.selected = {<<sel.list[i], Entry(pools, sel.list[i]).pool>> :
                                        i \in DOMAIN sel.list}]
            IN  /\ lastSweep' = now
                /\ IF sel.err
                   THEN /\ clean' = [clean EXCEPT ![t] = [c EXCEPT !.outcome = "AttributeError"]]
                        /\ UNCHANGED <<pools, last_cleanup>>
                   ELSE AfterEvict(t, c, Evict(created, managerPool, pools,
                                               sel.list, {}))
    /\ UNCHANGED <<nonPoolVars, peers, now, managerPool, created, schema, conn, disc>>

\* pool.close() is over: del self.pools[cred_hash], and on with the loop
CleanUpResume(t) ==
    LET c == clean[t]
        cr == Close(created, c.target)
        h == Head(c.todo)
    IN  /\ c.pc = "closing"
        /\ created' = cr
        /\ IF ~Has(pools, h)
           THEN /\ clean' = [clean EXCEPT ![t].pc = "idle", ![t].outcome = "KeyError"]
                /\ UNCHANGED <<pools, last_cleanup>>
           ELSE AfterEvict(t, c, Evict(cr, managerPool, Del(pools, h), Tail(c.todo),
                                       c.removed \cup {h}))
        /\ UNCHANGED <<nonPoolVars, peers, now, calls, managerPool, schema, conn, disc, lastSweep>>

(***************************************************************************)
(* PostgreSQLClientManager.disconnect: for ... in self.pools.items().      *)
(* The dict iterator raises RuntimeError when the dict's size has changed  *)
(* since the loop began, skips holes, and yields the entry's current value.*)
(***************************************************************************)
\* the loop up to the next pool.close() that suspends, its end, or RuntimeError
RECURSIVE Iterate(_, _, _, _, _, _)
Iterate(cr, mp, ps, pos, len, used) ==
    LET ahead == {i \in LiveIdx(ps) : i >= pos}
        i == CHOOSE j \in ahead : \A k \in ahead : j <= k
        tgt == DisconnectTarget(cr, mp, ps[i].pool)
    IN  IF Used(ps) # used THEN [status |-> "raised", pos |-> pos, len |-> len, target |-> None]
        ELSE IF ahead = {} THEN [status |-> "done", pos |-> pos, len |-> len, target |-> None]
        ELSE IF len = 0 THEN [status |-> "raised", pos |-> pos, len |-> len, target |-> None]
        ELSE IF tgt # None
        THEN [status |-> "await", pos |-> i + 1, len |-> len - 1, target |-> tgt]
        ELSE Iterate(cr, mp, ps, i + 1, len - 1, used)

AfterIterate(t, d, r) ==
    /\ disc' = [disc EXCEPT ![t] =
            [d EXCEPT !.pc = IF r.status = "await" THEN "closing" ELSE "idle",
                      !.pos = r.pos, !.len = r.len, !.target = r.target,
                      !.outcome = CASE r.status = "done" -> "returned"
                                    [] r.status = "raised" -> "raised"
                                    [] OTHER -> "none"]]

DisconnectCall(t) ==
    LET d == [IdleDisc EXCEPT !.used = Used(pools),
                !.snapshot = {pools[i].pool : i \in LiveIdx(pools)} \ {None}]
    IN  /\ FirstFree(t, DiscTasks, Disconnecting)
        /\ calls < MaxCalls
        /\ calls' = calls + 1
        /\ AfterIterate(t, d, Iterate(created, managerPool, pools, 1,
                                      Used(pools), Used(pools)))
        /\ UNCHANGED <<nonPoolVars, peers, now, pools, last_cleanup, managerPool, created,
                       schema, conn, clean, lastSweep>>

DisconnectResume(t) ==
    LET d == disc[t]
        cr == Close(created, d.target)
    IN  /\ d.pc = "closing"
        /\ created' = cr
        /\ AfterIterate(t, d, Iterate(cr, managerPool, pools, d.pos, d.len, d.used))
        /\ UNCHANGED <<nonPoolVars, peers, now, calls, pools, last_cleanup, managerPool, schema,
                       conn, clean, lastSweep>>

\* time passes
Tick(d) ==
    /\ calls < MaxCalls
    /\ calls' = calls + 1
    /\ now' = now + d
    /\ UNCHANGED <<nonPoolVars, peers, pools, last_cleanup, managerPool, created, schema, conn,
                   clean, disc, lastSweep>>

(***************************************************************************)
(* The import path.  The store is the two tables _init_schema creates:     *)
(* verba_documents with uuid as its only key, and verba_chunks, whose      *)
(* document_uuid references a document ON DELETE CASCADE.                  *)
(***************************************************************************)
\* the titles of files and of the documents readers yield
Titles == {"A", "B"}

\* len(document.chunks) once the chunker has split the document of that title
ChunkCount(title) == IF title = "A" THEN 1 ELSE 2

\* the coroutines that run import_document
ImportTasks == {1, 2}

\* file_config.fileID of the import a coroutine runs
FileId(t) == <<"f1", "f2">>[t]

\* the file configurations imports arrive with.  file_config.isURL decides
\* only under which fileID a document's progress is reported (ReportID), so
\* it is no part of the state
FileConfigs == [filename : Titles, overwrite : BOOLEAN]

\* the documents a reader may yield for one file
ReaderYields == UNION {[1..n -> Titles] : n \in 0..MaxDocs}

\* SELECT uuid ... WHERE title = $1, read by fetchval: the uuid of one of
\* the rows with that title, None when there is none
exist_document_name(docs, title) ==
    IF \E d \in docs : d.title = title
    THEN {d.uuid : d \in {e \in docs : e.title = title}}
    ELSE {None}

\* DELETE FROM verba_documents without the cascade: the chunks stay
Cascade_None(store, gone) == store.chunks

\* ON DELETE CASCADE: the chunks that are left once the documents with
\* these uuids are deleted
Cascade(store, gone) == {c \in store.chunks : c.document_uuid \notin gone}

\* DELETE FROM verba_documents WHERE uuid = $1, and the cascade
delete_document(store, u) ==
    [documents |-> {d \in store.documents : d.uuid # u},
     chunks |-> Cascade(store, {u})]

\* the embedding vectors: unit vectors, so that the cosine distance of two
\* of them is 1 minus their dot product
Vectors == {<<1, 0>>, <<0, 1>>}

\* the embedder names chunks are stored and searched under
Embedders == {"e1", "e2"}

\* document.labels of the document with that title
Labels(title) == IF title = "A" THEN {"x"} ELSE {}

\* a chunk of a document: it may have no vector attribute, and its vector
\* may be None
Chunks(i) == {[chunk_id |-> i]} \cup [chunk_id : {i}, vector : Vectors \cup {NULL}]

\* the Document objects that reach the store: document.chunks as the chunker
\* left them, ChunkCount(title) of them
Documents ==
    UNION {[title : {title}, labels : {Labels(title)},
            chunks : {cs \in [1..ChunkCount(title) -> UNION {Chunks(i) : i \in 1..ChunkCount(title)}] :
                         \A i \in DOMAIN cs : cs[i].chunk_id = i}] : title \in Titles}

\* the document embedder_manager.vectorize hands on: every chunk has its vector
Vectorized(title, n) ==
    [title |-> title, labels |-> Labels(title),
     chunks |-> [i \in 1..n |-> [chunk_id |-> i, vector |-> <<1, 0>>]]]

\* rag_config["Embedder"] ... .config["Model"].value of an import
Model == "e1"

\* chunk.vector if hasattr(chunk, 'vector') and chunk.vector else None
StoredVector(chunk) ==
    IF "vector" \in DOMAIN chunk /\ chunk.vector # NULL THEN chunk.vector ELSE NULL

\* the statements of PostgreSQLManager.import_document: the INSERT of the
\* document row, then one INSERT per chunk
Statements(document) == 1 + Len(document.chunks)

\* a statement of import_document may raise: 0 when none does, else the
\* number of the statement that raises
Faults(document) == 0..Statements(document)

\* the tables as the connection sees them once the first done statements
\* of import_document have been executed
Inserted(store, u, document, embedder, done) ==
    IF done = 0
    THEN store
    ELSE [documents |-> store.documents \cup
                        {[uuid |-> u, title |-> document.title, labels |-> document.labels]},
          chunks |-> store.chunks \cup
                     {[document_uuid |-> u, chunk_id |-> document.chunks[i].chunk_id,
                       vector |-> StoredVector(document.chunks[i]),
                       embedder |-> embedder] : i \in 1..(done - 1)}]

\* async with conn.transaction(): commit when the block ends, rollback when
\* it raises
Transaction(before, after, raised) == IF raised THEN before ELSE after

\* PostgreSQLManager.import_document: the document row and one row per
\* chunk, in one transaction
import_document(store, u, document, embedder, fault) ==
    Transaction(store,
                Inserted(store, u, document, embedder,
                         IF fault = 0 THEN Statements(document) ELSE fault - 1),
                fault # 0)

Store == [documents |-> documents, chunks |-> chunks]

\* logger.send_report(fileID, status, ...), in a coroutine's own record of
\* the statuses it has reported for its fileID
Report(reports, status) == Append(reports, status)

\* the test with its "not" lost: it refuses the overwriting import instead
Refused_Overwriting(dup, overwrite) == dup # None /\ overwrite

\* duplicate_uuid is not None and not file_config.overwrite
Refused(dup, overwrite) == dup # None /\ ~overwrite

\* duplicate_uuid is not None and file_config.overwrite
Replaced(dup, overwrite) == dup # None /\ overwrite

\* an import_document coroutine before its call; before is the history of
\* the call: the tables as they were when import_document was called
IdleImport == [pc |-> "idle", fileID |-> "", filename |-> "", overwrite |-> FALSE,
               duplicate_uuid |-> None, tasks |-> <<>>,
               reports |-> <<>>, outcome |-> "none", reason |-> "",
               before |-> [documents |-> {}, chunks |-> {}]]

\* No import has been called yet
NoImport ==
    /\ requests = 0
    /\ loaded = 0
    /\ imp = [t \in ImportTasks |-> IdleImport]

\* what a call of the store gave its caller
Outcome(call, docs, uuids, raised) ==
    [call |-> call, documents |-> docs, uuids |-> uuids, raised |-> raised, rows |-> <<>>]

\* No reset is under way and the store has not been called
NoSearch ==
    /\ reset = "idle"
    /\ result = Outcome("", <<>>, <<>>, FALSE)

\* connect has hashed no credentials
NoHash ==
    /\ credentials = <<>>
    /\ cred_hash = <<>>

\* what a search of document_chunks was called with and returned
Found(limit, alpha, rows) == [limit |-> limit, alpha |-> alpha, rows |-> rows]

\* document_chunks is empty, and nothing has been searched
NoRailway ==
    /\ document_chunks = {}
    /\ found = [vector_search |-> Found(0, 0, <<>>), hybrid_search |-> Found(0, 0, <<>>)]

\* verba_suggestions is empty, and add_suggestion has not been called
NoSuggest ==
    /\ suggestions = {}
    /\ added = <<>>

\* no stage manager has been called
NoManagers == invoked = <<>>

\* no generation stream is relayed
NoStream ==
    /\ upstream = [pc |-> "idle", raises |-> FALSE, fragments |-> <<>>]
    /\ sent = <<>>
    /\ full_text = ""
    /\ reasoning_text = ""

\* the parts of the model that stand alone are at rest
NoMore == NoHash /\ NoRailway /\ NoSuggest /\ NoManagers /\ NoStream

\* load_rag_config before its first call: its local loaded_config, and what
\* its calls so far were given, did and returned
IdleLoad == [pc |-> "idle", loaded_config |-> NULL, calls |-> <<>>]

\* verify_config and load_rag_config have not been called
NoConfig ==
    /\ production = ""
    /\ a = NULL
    /\ b = NULL
    /\ verified = {}
    /\ verba_config = NULL
    /\ rag = IdleLoad

\* The tables as _init_schema creates them
EmptyStore == [documents |-> {}, chunks |-> {}]

ImportInit ==
    /\ documents = EmptyStore.documents
    /\ chunks = EmptyStore.chunks
    /\ NoImport

Importing(t) == imp[t].pc \notin {"idle", "done"}

\* import_document returns: its locals are gone, what it reported stays
Return(i, outcome, reason, reports) ==
    [i EXCEPT !.pc = "done", !.outcome = outcome, !.reason = reason,
              !.reports = reports, !.duplicate_uuid = None,
              !.overwrite = FALSE, !.tasks = <<>>]

\* the except clause of import_document: the ERROR report, and return
Failed(i, reason) == Return(i, "ERROR", reason, Report(i.reports, "ERROR"))

\* import_document up to its second suspension: exist_document_name answers
ImportCall(t, cfg) ==
    LET i == [IdleImport EXCEPT !.fileID = FileId(t), !.filename = cfg.filename,
                                !.overwrite = cfg.overwrite, !.before = Store]
    IN  /\ FirstFree(t, ImportTasks, Importing)
        /\ requests < MaxRequests
        /\ requests' = requests + 1
        /\ \E dup \in exist_document_name(documents, cfg.filename) :
              imp' = [imp EXCEPT ![t] =
                  IF Refused(dup, cfg.overwrite)
                  THEN Failed(i, "already exists")
                  ELSE IF Replaced(dup, cfg.overwrite)
                  THEN [i EXCEPT !.pc = "delete", !.duplicate_uuid = dup]
                  ELSE [i EXCEPT !.pc = "load",
                                 !.reports = Report(i.reports, "STARTING")]]
        /\ UNCHANGED <<nonImportVars, documents, chunks, loaded>>

\* delete_document(duplicate_uuid) is over: the STARTING report
ImportDelete(t) ==
    LET s == delete_document(Store, imp[t].duplicate_uuid)
    IN  /\ imp[t].pc = "delete"
        /\ documents' = s.documents
        /\ chunks' = s.chunks
        /\ imp' = [imp EXCEPT ![t].pc = "load",
                       ![t].reports = Report(imp[t].reports, "STARTING")]
        /\ UNCHANGED <<nonImportVars, requests, loaded>>

\* the coroutine process_single_document(pool, doc, file_config, logger)
\* that import_document gathers for a document with that title
\* uuid.uuid4() for the k-th document yielded after n others: a value no
\* other call of it returns
uuid4(n, k) == n + k

\* current_file_config.fileID: the fileID under which the coroutine for a
\* document of that title reports, in an import with that fileID
ReportID(fileID, isURL, title) == IF isURL THEN fileID \o title ELSE fileID

Process(title, uuid) ==
    [pc |-> "check", title |-> title, uuid4 |-> uuid,
     duplicate_uuid |-> None, chunks |-> 0, reason |-> ""]

\* reader_manager.load yields its documents: the LOADING report, and one
\* coroutine per document is gathered
ReaderLoad(t, titles) ==
    /\ imp[t].pc = "load"
    /\ loaded + Len(titles) <= MaxDocs
    /\ loaded' = loaded + Len(titles)
    /\ imp' = [imp EXCEPT ![t].pc = "gather",
                   ![t].reports = Report(imp[t].reports, "LOADING"),
                   ![t].tasks = [k \in DOMAIN titles |->
                        Process(titles[k], uuid4(loaded, k))]]
    /\ UNCHANGED <<nonImportVars, documents, chunks, requests>>

\* reader_manager.load raises
ReaderFail(t) ==
    /\ imp[t].pc = "load"
    /\ imp' = [imp EXCEPT ![t] = Failed(imp[t], "reader")]
    /\ UNCHANGED <<nonImportVars, documents, chunks, requests, loaded>>

\* the except clause of process_single_document: the ERROR report, and raise
Raised(p, reason) == [p EXCEPT !.pc = "raised", !.reason = reason, !.chunks = 0]

\* the statuses a gathered coroutine has reported for its fileID when it is
\* over: INGESTING and DONE from its last lines, ERROR from its except clause
Reported(p) ==
    CASE p.pc = "returned" -> <<"INGESTING", "DONE">>
      [] p.pc = "raised" -> <<"ERROR">>
      [] OTHER -> <<>>

\* a step of the k-th gathered coroutine of import t, which leaves it as p
Proceed(t, k, p) == imp' = [imp EXCEPT ![t].tasks[k] = p]

Running(t, k, pc) ==
    /\ imp[t].pc = "gather"
    /\ k \in DOMAIN imp[t].tasks
    /\ imp[t].tasks[k].pc = pc

\* process_single_document up to its second suspension
ProcessCheck(t, k) ==
    LET p == imp[t].tasks[k]
    IN  /\ Running(t, k, "check")
        /\ \E dup \in exist_document_name(documents, p.title) :
              Proceed(t, k,
                  IF Refused(dup, imp[t].overwrite)
                  THEN Raised(p, "already exists")
                  ELSE IF Replaced(dup, imp[t].overwrite)
                  THEN [p EXCEPT !.pc = "delete", !.duplicate_uuid = dup]
                  ELSE [p EXCEPT !.pc = "chunk"])
        /\ UNCHANGED <<nonImportVars, documents, chunks, requests, loaded>>

ProcessDelete(t, k) ==
    LET p == imp[t].tasks[k]
        s == delete_document(Store, p.duplicate_uuid)
    IN  /\ Running(t, k, "delete")
        /\ documents' = s.documents
        /\ chunks' = s.chunks
        /\ Proceed(t, k, [p EXCEPT !.pc = "chunk"])
        /\ UNCHANGED <<nonImportVars, requests, loaded>>

\* the store called on the chunks before they are embedded
Following_StoreUnembedded(stage) ==
    CASE stage = "chunk" -> "store"
      [] stage = "embed" -> "store"
      [] stage = "store" -> "returned"

\* process_single_document awaits chunk_task, then embedding_task, then
\* ingesting_task: where the coroutine is once the call of a stage returns
Following(stage) ==
    CASE stage = "chunk" -> "embed"
      [] stage = "embed" -> "store"
      [] stage = "store" -> "returned"

\* chunker_manager.chunk returns the document in chunks, or raises
ChunkDone(t, k, ok) ==
    LET p == imp[t].tasks[k]
    IN  /\ Running(t, k, "chunk")
        /\ Proceed(t, k, IF ok THEN [p EXCEPT !.pc = Following("chunk"),
                                               !.chunks = ChunkCount(p.title)]
                         ELSE Raised(p, "stage failed"))
        /\ UNCHANGED <<nonImportVars, documents, chunks, requests, loaded>>

\* embedder_manager.vectorize returns the document with its chunks'
\* vectors, or raises.  (components/managers.py's EmbeddingManager defines
\* embed and no vectorize: against that class the call raises
\* AttributeError, which is the case ok = FALSE.)
EmbedDone(t, k, ok) ==
    LET p == imp[t].tasks[k]
    IN  /\ Running(t, k, "embed")
        /\ Proceed(t, k, IF ok THEN [p EXCEPT !.pc = Following("embed")]
                         ELSE Raised(p, "stage failed"))
        /\ UNCHANGED <<nonImportVars, documents, chunks, requests, loaded>>

\* the transaction of PostgreSQLManager.import_document commits or is
\* rolled back
StoreDone(t, k) ==
    LET p == imp[t].tasks[k]
        document == Vectorized(p.title, p.chunks)
    IN  /\ Running(t, k, "store")
        /\ \E fault \in Faults(document) :
              LET s == import_document(Store, p.uuid4, document, Model, fault)
              IN  /\ documents' = s.documents
                  /\ chunks' = s.chunks
                  /\ Proceed(t, k, IF fault = 0
                                   THEN [p EXCEPT !.pc = Following("store")]
                                   ELSE Raised(p, "stage failed"))
        /\ UNCHANGED <<nonImportVars, requests, loaded>>

\* the import counted as done only when every document succeeded
Imported_OnlyAll(successful_tasks, results) == successful_tasks = Len(results)

\* successful_tasks > 1 or successful_tasks == 1: the branches of
\* import_document that do not raise
Imported(successful_tasks, results) == successful_tasks > 1 \/ successful_tasks = 1

\* asyncio.gather has every result: the count of successes decides
GatherDone(t) ==
    LET i == imp[t]
        successful_tasks == Cardinality({k \in DOMAIN i.tasks : i.tasks[k].pc = "returned"})
    IN  /\ i.pc = "gather"
        /\ \A k \in DOMAIN i.tasks : i.tasks[k].pc \in {"returned", "raised"}
        /\ imp' = [imp EXCEPT ![t] =
              IF Imported(successful_tasks, i.tasks)
              THEN Return(i, "DONE", "", Report(Report(i.reports, "INGESTING"), "DONE"))
              ELSE IF Len(i.tasks) = 1
              THEN Failed(i, i.tasks[1].reason)
              ELSE Failed(i, "no documents imported")]
        /\ UNCHANGED <<nonImportVars, documents, chunks, requests, loaded>>

\* a client deletes a stored document: delete_document(uuid)
DeleteDocument(u) ==
    LET s == delete_document(Store, u)
    IN  /\ requests < MaxRequests
        /\ requests' = requests + 1
        /\ \E d \in documents : d.uuid = u
        /\ documents' = s.documents
        /\ chunks' = s.chunks
        /\ UNCHANGED <<nonImportVars, loaded, imp>>

(***************************************************************************)
(* The store on its own: PostgreSQLManager's import and deletes called     *)
(* directly, and SupabaseManager.import_document, which keeps tables of    *)
(* the same names (the model has one pair of tables).                      *)
(***************************************************************************)
\* PostgreSQLManager.import_document(pool, document, embedder)
StoreImport(document, embedder) ==
    LET u == uuid4(loaded, 1)
    IN  /\ loaded < MaxDocs
        /\ loaded' = loaded + 1
        /\ \E fault \in Faults(document) :
              LET s == import_document(Store, u, document, embedder, fault)
              IN  /\ documents' = s.documents
                  /\ chunks' = s.chunks
                  /\ result' = Outcome("import_document", <<document>>, <<u>>, fault # 0)
        /\ UNCHANGED <<poolVars, moreVars, configVars, requests, imp, reset>>

\* a chunk of a document handed to SupabaseManager: it may have no embedding
\* attribute, and its embedding may be None
SupabaseChunks(i) ==
    {[chunk_index |-> i]} \cup [chunk_index : {i}, embedding : Vectors \cup {NULL}]

\* the documents handed to SupabaseManager.import_document
SupabaseDocuments ==
    UNION {[title : {title},
            chunks : {cs \in [1..ChunkCount(title) -> UNION {SupabaseChunks(i) : i \in 1..ChunkCount(title)}] :
                         \A i \in DOMAIN cs : cs[i].chunk_index = i}] : title \in Titles}

\* if hasattr(chunk, "embedding") and chunk.embedding: the chunks of the
\* document that get a row
Embedded(doc) ==
    {i \in DOMAIN doc.chunks :
        "embedding" \in DOMAIN doc.chunks[i] /\ doc.chunks[i].embedding # NULL}

\* the rows the statements of SupabaseManager.import_document insert for one
\* document: the document row and a row for each chunk that has an embedding
SupabaseInserted(store, id, doc) ==
    [documents |-> store.documents \cup {[uuid |-> id, title |-> doc.title, labels |-> {}]},
     chunks |-> store.chunks \cup
                {[document_uuid |-> id, chunk_id |-> doc.chunks[i].chunk_index,
                  vector |-> doc.chunks[i].embedding, embedder |-> ""] : i \in Embedded(doc)}]

\* SupabaseManager.import_document([doc]): one transaction; an exception is
\* caught and False is returned
SupabaseImport(doc, fault) ==
    LET id == uuid4(loaded, 1)
        s == Transaction(Store, SupabaseInserted(Store, id, doc), fault)
    IN  /\ loaded < MaxDocs
        /\ loaded' = loaded + 1
        /\ documents' = s.documents
        /\ chunks' = s.chunks
        /\ result' = Outcome("supabase_import_document", <<doc>>, <<id>>, fault)
        /\ UNCHANGED <<poolVars, moreVars, configVars, requests, imp, reset>>

\* delete_all_documents: DELETE FROM verba_documents
DeleteAllDocuments ==
    /\ requests < MaxRequests
    /\ requests' = requests + 1
    /\ documents' = {}
    /\ chunks' = Cascade(Store, {d.uuid : d \in documents})
    /\ UNCHANGED <<poolVars, moreVars, configVars, storeVars, loaded, imp>>

\* delete_all, its first statement: DELETE FROM verba_chunks
DeleteAllCall ==
    /\ reset = "idle"
    /\ requests < MaxRequests
    /\ requests' = requests + 1
    /\ chunks' = {}
    /\ reset' = "documents"
    /\ UNCHANGED <<poolVars, moreVars, configVars, documents, loaded, imp, result>>

\* delete_all, its second statement: DELETE FROM verba_documents
DeleteAllResume ==
    /\ reset = "documents"
    /\ documents' = {}
    /\ chunks' = Cascade(Store, {d.uuid : d \in documents})
    /\ reset' = "config"
    /\ UNCHANGED <<poolVars, moreVars, configVars, requests, loaded, imp, result>>

\* delete_all, its last statements: DELETE FROM verba_config (and the
\* suggestions, which the model does not keep)
DeleteAllDone ==
    /\ reset = "config"
    /\ verba_config' = NULL
    /\ reset' = "idle"
    /\ UNCHANGED <<poolVars, moreVars, importVars, result, production, a, b, verified, rag>>

(***************************************************************************)
(* The RAG configuration.  A dict is the sequence of its (key, value)      *)
(* pairs in the order Python iterates over them.  The tree has the         *)
(* component types at the top; each type has its components by name; each  *)
(* component has its config, the options by key; an option has its         *)
(* description, its allowed values and its current value.                  *)
(***************************************************************************)
Range(f) == {f[i] : i \in DOMAIN f}

\* the dicts with keys among keys and values among vals
Dicts(keys, vals) ==
    UNION {{d \in [1..n -> keys \X vals] :
               \A i, j \in 1..n : i # j => d[i][1] # d[j][1]} : n \in 0..Cardinality(keys)}

\* list(d): the keys as the dict iterates over them
KeysOf(d) == [i \in DOMAIN d |-> d[i][1]]

\* d[key]
At(d, key) == (CHOOSE p \in Range(d) : p[1] = key)[2]

\* the options a component's get_meta may report
Settings == [description : {"d1", "d2"}, values : {<<1, 2>>, <<2, 1>>, <<1>>}, value : {1, 2}]
Configs == Dicts({"k1", "k2"}, Settings)

Component(config) == [config |-> config]
Type(components) == [components |-> components, selected |-> "c1"]

\* an option every tree that varies above the options has
Option == <<"k1", [description |-> "d1", values |-> <<1, 2>>, value |-> 1]>>

\* trees that differ in the options of one component, in the components of
\* one type, and in the component types
TreesOfOptions ==
    {<< <<"Retriever", Type(<< <<"c1", Component(config)>> >>)>> >> : config \in Configs}
TreesOfComponents ==
    {<< <<"Retriever", Type(components)>> >> :
        components \in Dicts({"c1", "c2"}, {Component(<<Option>>)})}
TreesOfTypes ==
    Dicts({"Retriever", "Generator"}, {Type(<< <<"c1", Component(<<Option>>)>> >>)})
Trees == TreesOfOptions \cup TreesOfComponents \cup TreesOfTypes

\* the allowed values compared as they are listed
sorted_AsListed(values) == values

\* sorted(values)
sorted(values) ==
    CHOOSE s \in [DOMAIN values -> Range(values)] :
        /\ \A i, j \in DOMAIN s : i < j => s[i] <= s[j]
        /\ \A v \in Range(values) :
              Cardinality({i \in DOMAIN s : s[i] = v})
                  = Cardinality({i \in DOMAIN values : values[i] = v})

\* the two checks on a setting, without the one on the description
SameSetting_ValuesOnly(a_setting, b_setting) ==
    sorted(a_setting.values) = sorted(b_setting.values)

\* a_setting["description"] != b_setting["description"] and
\* sorted(a_setting["values"]) != sorted(b_setting["values"]), neither holds
SameSetting(a_setting, b_setting) ==
    /\ a_setting.description = b_setting.description
    /\ sorted(a_setting.values) = sorted(b_setting.values)

\* the loop over zip(a_config, b_config), after the test of the lengths
SameConfig(a_config, b_config) ==
    /\ Len(a_config) = Len(b_config)
    /\ \A i \in DOMAIN a_config :
          /\ a_config[i][1] = b_config[i][1]
          /\ SameSetting(a_config[i][2], b_config[i][2])

\* the loop over zip(a_component, b_component), after the test of the lengths
SameComponents(a_component, b_component) ==
    /\ Len(a_component) = Len(b_component)
    /\ \A i \in DOMAIN a_component :
          /\ a_component[i][1] = b_component[i][1]
          /\ SameConfig(a_component[i][2].config, b_component[i][2].config)

\* verify_config(a, b): True in Demo mode; else the loop over zip(a, b),
\* which stops with the shorter of the two, returns False at the first
\* mismatch and True when it finds none
verify_config(env, a_tree, b_tree) ==
    \/ env = "Demo"
    \/ \A i \in DOMAIN a_tree \cap DOMAIN b_tree :
          /\ a_tree[i][1] = b_tree[i][1]
          /\ SameComponents(a_tree[i][2].components, b_tree[i][2].components)

\* verify_config is called with two trees
Verify ==
    /\ verified = {}
    /\ verified' = {verify_config(production, a, b)}
    /\ UNCHANGED <<poolVars, moreVars, importVars, storeVars, production, a, b, verba_config, rag>>

\* the largest limit a search is called with
MaxLimit == 3

\* the corpus with a document of that title imported under uuid u, or without
WithDocument(store, u, title) ==
    {store} \cup
    {import_document(store, u, document, embedder, 0) :
        document \in {d \in Documents : d.title = title}, embedder \in Embedders}

\* the corpora searched: what imports of an earlier run have left
Corpora == UNION {WithDocument(store, 2, "B") : store \in WithDocument(EmptyStore, 1, "A")}

\* a list argument of a search: <<>> for None, else <<its elements>>
Filters(elements) == {NULL} \cup {<<f>> : f \in SUBSET elements}

\* the arguments of a search
Searches ==
    [vector : Vectors, embedder : Embedders, limit : 1..MaxLimit,
     labels : Filters({"x"}), document_uuids : Filters({2})]

\* c.vector <=> vector, the cosine distance of unit vectors: <<>> for the
\* NULL of a NULL vector, else <<the distance>>
Distance(v, w) == IF v = NULL THEN NULL ELSE <<1 - (v[1] * w[1] + v[2] * w[2])>>

\* SELECT ..., (c.vector <=> $1) as distance FROM verba_chunks c
\* JOIN verba_documents d ON c.document_uuid = d.uuid
Join(store, vector) ==
    UNION {{[c |-> c, d |-> d, distance |-> Distance(c.vector, vector)] :
               d \in {x \in store.documents : x.uuid = c.document_uuid}} : c \in store.chunks}

\* if labels: / if document_uuids: a list that is neither None nor empty
Given(list) == list # NULL /\ list[1] # {}

\* WHERE c.embedder = $2, AND d.labels && $n when labels are given, AND
\* c.document_uuid = ANY($n) when document_uuids are given
Where(r, search) ==
    /\ r.c.embedder = search.embedder
    /\ Given(search.labels) => r.d.labels \cap search.labels[1] # {}
    /\ Given(search.document_uuids) => r.c.document_uuid \in search.document_uuids[1]

\* ORDER BY distance ASC: NULL sorts last, rows of one distance in any order
Ordered(s) ==
    \A i, j \in DOMAIN s :
        i < j => \/ s[j].distance = NULL
                 \/ s[i].distance # NULL /\ s[i].distance[1] <= s[j].distance[1]

\* the orders in which the statement may give the rows
OrderBy(rows) ==
    {s \in [1..Cardinality(rows) -> rows] :
        /\ \A i, j \in DOMAIN s : s[i] = s[j] => i = j
        /\ Ordered(s)}

\* LIMIT n
Limit(s, n) == SubSeq(s, 1, IF Len(s) < n THEN Len(s) ELSE n)

\* what a search did: it raised, or it returned rows
Searched(raised, rows) == [raised |-> raised, rows |-> rows]
\* the number of the placeholder after LIMIT, {} when there is none: the
\* quote in  LIMIT $" + str(len(params) + 1) + ";  closes nothing inside the
\* triple-quoted literal, so the statement has that text after LIMIT and no
\* placeholder
LimitPlaceholder(params) == {}

\* the statement is one PostgreSQL prepares
Prepares(placeholder) == placeholder # {}

\* ChunkScore(chunk_id, doc_uuid, score): 1.0 - None raises
ChunkScore(r) == [chunk_id |-> r.c.chunk_id, doc_uuid |-> r.d.uuid, score |-> 1 - r.distance[1]]

\* PostgreSQLManager.similarity_search: what a call may do
similarity_search(store, search) ==
    LET params == <<search.vector, search.embedder>>
                  \o (IF Given(search.labels) THEN <<search.labels>> ELSE <<>>)
                  \o (IF Given(search.document_uuids) THEN <<search.document_uuids>> ELSE <<>>)
    IN  IF ~Prepares(LimitPlaceholder(params))
        THEN {Searched(TRUE, <<>>)}
        ELSE {IF \E i \in DOMAIN results : results[i].distance = NULL
              THEN Searched(TRUE, <<>>)
              ELSE Searched(FALSE, [i \in DOMAIN results |-> ChunkScore(results[i])]) :
                 results \in {Limit(s, search.limit) :
                                 s \in OrderBy({r \in Join(store, search.vector) : Where(r, search)})}}

\* no test of the vector
NotNull_Any(vector) == TRUE

\* AND c.vector IS NOT NULL
NotNull(vector) == vector # NULL

\* the WHERE clause of the SQL function similarity_search: a filter that is
\* NULL does not filter
FunctionWhere(r, search) ==
    /\ r.c.embedder = search.embedder
    /\ NotNull(r.c.vector)
    /\ search.labels = NULL \/ r.d.labels \cap search.labels[1] # {}
    /\ search.document_uuids = NULL \/ r.d.uuid \in search.document_uuids[1]

\* a row of the SQL function: 1.0 - (c.vector <=> search_vector) as score
FunctionRow(r) ==
    [chunk_id |-> r.c.chunk_id, doc_uuid |-> r.d.uuid,
     score |-> IF r.distance = NULL THEN NULL ELSE 1 - r.distance[1]]

\* the SQL function similarity_search(search_vector, search_embedder,
\* search_limit, filter_labels, filter_doc_uuids): what a call may return
FunctionSearched(store, search) ==
    {Searched(FALSE, [i \in DOMAIN results |-> FunctionRow(results[i])]) :
        results \in {Limit(s, search.limit) :
                        s \in OrderBy({r \in Join(store, search.vector) : FunctionWhere(r, search)})}}

\* a call of PostgreSQLManager.similarity_search
Search(search) ==
    /\ \E r \in similarity_search(Store, search) :
          result' = [Outcome("PostgreSQLManager.similarity_search", <<search>>, <<>>, r.raised)
                        EXCEPT !.rows = r.rows]
    /\ UNCHANGED <<poolVars, moreVars, importVars, configVars, reset>>

\* SELECT * FROM similarity_search(...), the function of the schema
FunctionSearch(search) ==
    /\ \E r \in FunctionSearched(Store, search) :
          result' = [Outcome("similarity_search", <<search>>, <<>>, r.raised)
                        EXCEPT !.rows = r.rows]
    /\ UNCHANGED <<poolVars, moreVars, importVars, configVars, reset>>

\* load_rag_config is called at most this many times in one run
MaxLoads == 2

\* the keys of the model's trees as a JSONB value orders the keys of an
\* object: the shorter key first, keys of one length bytewise
JsonbOrder == <<"c1", "c2", "k1", "k2", "Generator", "Retriever">>

Rank(key) == CHOOSE i \in DOMAIN JsonbOrder : JsonbOrder[i] = key

\* the pairs of an object in the order of JSONB
Sorted(d) ==
    [i \in DOMAIN d |->
        CHOOSE p \in Range(d) :
            Cardinality({q \in Range(d) : Rank(q[1]) < Rank(p[1])}) = i - 1]

\* a tree as the JSONB column gives it back: the keys of every object in
\* the order of JSONB
Jsonb(tree) ==
    Sorted([i \in DOMAIN tree |->
        <<tree[i][1],
          [components |->
               Sorted([j \in DOMAIN tree[i][2].components |->
                   <<tree[i][2].components[j][1],
                     [config |-> Sorted(tree[i][2].components[j][2].config)]>>]),
           selected |-> tree[i][2].selected]>>])

\* set_config: INSERT ... ON CONFLICT (uuid) DO UPDATE SET config = $2, with
\* json.dumps(config) for $2: the row afterwards
set_config(config) == <<Jsonb(config)>>

\* get_config: json.loads(result) if result else None, here <<the dict>> or <<>>
get_config(row) == row

\* the trees load_rag_config is run with: trees of every shape, their options
\* with one list of allowed values
LoadTrees ==
    {tree \in Trees :
        \A i \in DOMAIN tree : \A j \in DOMAIN tree[i][2].components :
            \A k \in DOMAIN tree[i][2].components[j][2].config :
                tree[i][2].components[j][2].config[k][2].values = <<1, 2>>}

\* what a call of load_rag_config was given, did and returned
Loaded(loaded_config, accepted, wrote, returned) ==
    [loaded_config |-> loaded_config, accepted |-> accepted, wrote |-> wrote,
     returned |-> returned]

\* load_rag_config is called, and awaits get_config
LoadCall ==
    /\ rag.pc \in {"idle", "done"}
    /\ Len(rag.calls) < MaxLoads
    /\ rag' = [rag EXCEPT !.pc = "get"]
    /\ UNCHANGED <<poolVars, moreVars, importVars, storeVars, production, a, b, verified, verba_config>>

\* get_config has answered: the persisted tree is returned when there is one
\* and verify_config accepts it; the new tree is returned when nothing is
\* persisted; else set_rag_config(new_config) is awaited
LoadResume ==
    LET loaded_config == get_config(verba_config)
        new_config == b
    IN  /\ rag.pc = "get"
        /\ rag' = IF loaded_config # NULL
                  THEN IF verify_config(production, loaded_config[1], new_config)
                       THEN [rag EXCEPT !.pc = "done",
                                        !.calls = Append(@, Loaded(loaded_config, TRUE, FALSE,
                                                                   loaded_config[1]))]
                       ELSE [rag EXCEPT !.pc = "set", !.loaded_config = loaded_config]
                  ELSE [rag EXCEPT !.pc = "done",
                                   !.calls = Append(@, Loaded(loaded_config, FALSE, FALSE,
                                                              new_config))]
        /\ UNCHANGED <<poolVars, moreVars, importVars, storeVars, production, a, b, verified, verba_config>>

\* set_rag_config has written the new tree, which is returned
LoadSet ==
    /\ rag.pc = "set"
    /\ verba_config' = set_config(b)
    /\ rag' = [rag EXCEPT !.pc = "done", !.loaded_config = NULL,
                          !.calls = Append(@, Loaded(rag.loaded_config, FALSE, TRUE, b))]
    /\ UNCHANGED <<poolVars, moreVars, importVars, storeVars, production, a, b, verified>>

(***************************************************************************)
(* The specifications.                                                     *)
(***************************************************************************)
Init == PoolInit /\ ImportInit /\ NoSearch /\ NoConfig /\ NoMore

PoolNext ==
    \/ \E d \in TickSteps : Tick(d)
    \/ \E t \in ConnTasks, c \in Credentials : ConnectCall(t, c)
    \/ \E t \in ConnTasks, ok \in BOOLEAN : CreatePoolDone(t, ok)
    \/ \E t \in ConnTasks, ok \in BOOLEAN : InitSchemaDone(t, ok)
    \/ \E t \in ConnTasks : VerifyDone(t)
    \/ \E t \in CleanTasks : CleanUpCall(t)
    \/ \E t \in CleanTasks : CleanUpResume(t)
    \/ \E t \in DiscTasks : DisconnectCall(t)
    \/ \E t \in DiscTasks : DisconnectResume(t)

Spec == Init /\ [][PoolNext]_vars

ImportNext ==
    \/ \E t \in ImportTasks, cfg \in FileConfigs : ImportCall(t, cfg)
    \/ \E t \in ImportTasks : ImportDelete(t)
    \/ \E t \in ImportTasks, titles \in ReaderYields : ReaderLoad(t, titles)
    \/ \E t \in ImportTasks : ReaderFail(t)
    \/ \E t \in ImportTasks, k \in 1..MaxDocs : ProcessCheck(t, k)
    \/ \E t \in ImportTasks, k \in 1..MaxDocs : ProcessDelete(t, k)
    \/ \E t \in ImportTasks, k \in 1..MaxDocs, ok \in BOOLEAN : ChunkDone(t, k, ok)
    \/ \E t \in ImportTasks, k \in 1..MaxDocs, ok \in BOOLEAN : EmbedDone(t, k, ok)
    \/ \E t \in ImportTasks, k \in 1..MaxDocs : StoreDone(t, k)
    \/ \E t \in ImportTasks : GatherDone(t)
    \/ \E u \in {d.uuid : d \in documents} : DeleteDocument(u)

\* The tables outlive the server: it starts on the tables as created, or on
\* tables that hold a document of an earlier run, whose uuid no import of this
\* run draws.
Persisted ==
    {EmptyStore,
     import_document(EmptyStore, uuid4(MaxDocs, 1),
                     Vectorized("A", ChunkCount("A")), Model, 0)}

InitImport ==
    /\ PoolInit
    /\ NoImport
    /\ NoSearch
    /\ NoMore
    /\ NoConfig
    /\ \E s \in Persisted : documents = s.documents /\ chunks = s.chunks

SpecImport == InitImport /\ [][ImportNext]_vars

StoreNext ==
    \/ \E document \in Documents, embedder \in Embedders : StoreImport(document, embedder)
    \/ \E doc \in SupabaseDocuments, fault \in BOOLEAN : SupabaseImport(doc, fault)
    \/ \E u \in {d.uuid : d \in documents} : DeleteDocument(u)
    \/ DeleteAllDocuments
    \/ DeleteAllCall
    \/ DeleteAllResume
    \/ DeleteAllDone

SpecStore == InitImport /\ [][StoreNext]_vars

\* VERBA_PRODUCTION
Productions == {"Local", "Demo"}

InitConfig ==
    /\ PoolInit
    /\ ImportInit
    /\ NoSearch
    /\ NoMore
    /\ production \in Productions
    /\ a \in Trees
    /\ b \in Trees
    /\ verified = {}
    /\ verba_config = NULL
    /\ rag = IdleLoad

ConfigNext == Verify

SpecConfig == InitConfig /\ [][ConfigNext]_vars

\* a corpus of an earlier run, and no search yet
InitSearch ==
    /\ PoolInit
    /\ NoImport
    /\ NoSearch
    /\ NoMore
    /\ NoConfig
    /\ \E s \in Corpora : documents = s.documents /\ chunks = s.chunks

SearchNext ==
    \/ \E search \in Searches : Search(search)
    \/ \E search \in Searches : FunctionSearch(search)

SpecSearch == InitSearch /\ [][SearchNext]_vars

\* the most chunks a document whose content is fetched has
MaxChunks == 12

\* chunks_per_page = 10
chunks_per_page == 10

\* the rows of verba_chunks of a document in n chunks, with the sequence
\* indices 0..n-1 as chunk_id
ChunkRows(u, n, embedder) ==
    {[document_uuid |-> u, chunk_id |-> i, vector |-> <<1, 0>>, embedder |-> embedder] :
        i \in 0..(n - 1)}

\* the tables content is fetched from: document 1 in up to MaxChunks chunks,
\* and document 2 with none or three
Contents ==
    {[documents |-> {[uuid |-> u, title |-> <<"A", "B">>[u], labels |-> {}] : u \in {1, 2}},
      chunks |-> ChunkRows(1, n, Model) \cup ChunkRows(2, m, Model)] :
        n \in 0..MaxChunks, m \in {0, 3}}

\* chunk["content_without_overlap"]: the text of that chunk of that document
content_without_overlap(c) == <<c.document_uuid, c.chunk_id>>

\* "".join([chunk["properties"]["content_without_overlap"] for chunk in
\* chunks]): the texts one after the other
JoinContent(cs) == [k \in DOMAIN cs |-> content_without_overlap(cs[k])]

\* get_chunk_by_ids: SELECT * FROM verba_chunks WHERE document_uuid = $1 AND
\* embedder = $2 AND chunk_id = ANY($3) ORDER BY chunk_id
get_chunk_by_ids(rows, embedder, doc_uuid, ids) ==
    LET selected == {c \in rows : /\ c.document_uuid = doc_uuid
                               /\ c.embedder = embedder
                               /\ c.chunk_id \in ids}
    IN  [k \in 1..Cardinality(selected) |->
            CHOOSE c \in selected :
                Cardinality({x \in selected : x.chunk_id < c.chunk_id}) = k - 1]

\* get_chunk_count: SELECT COUNT(*) ... WHERE document_uuid = $1 AND embedder = $2
get_chunk_count(rows, embedder, doc_uuid) ==
    Cardinality({c \in rows : c.document_uuid = doc_uuid /\ c.embedder = embedder})

\* range(max(0, chunk_id - int(chunks_per_page / 2)), chunk_id)
before_ids(chunk_id) ==
    (IF chunk_id - (chunks_per_page \div 2) > 0
     THEN chunk_id - (chunks_per_page \div 2) ELSE 0)..(chunk_id - 1)

\* range(chunk_id + 1, chunk_id + int(chunks_per_page / 2))
after_ids(chunk_id) == (chunk_id + 1)..(chunk_id + (chunks_per_page \div 2) - 1)

\* the ids of a page counted from one
request_chunk_ids_FromOne(page) ==
    (chunks_per_page * (page + 1) - chunks_per_page + 1)..(chunks_per_page * (page + 1))

\* range(chunks_per_page * (page + 1) - chunks_per_page, chunks_per_page * (page + 1))
request_chunk_ids(page) ==
    (chunks_per_page * (page + 1) - chunks_per_page)..(chunks_per_page * (page + 1) - 1)

\* int(math.ceil(total_chunks / chunks_per_page))
total_batches(total_chunks) == (total_chunks + chunks_per_page - 1) \div chunks_per_page

\* the ChunkScore lists get_content is given: none, or the one matched chunk
ChunkScores(rows, u) ==
    {<<>>} \cup {<<[chunk_id |-> c.chunk_id, embedder |-> c.embedder, score |-> 1]>> :
                    c \in {x \in rows : x.document_uuid = u}}

\* a piece of content_pieces
Piece(content, chunk_id, score, type) ==
    [content |-> content, chunk_id |-> chunk_id, score |-> score, type |-> type]

\* get_content(pool, uuid, page, chunk_scores): (content_pieces,
\* total_batches), or <<>> when it raises (chunk_scores[page] past the end);
\* the paged branch reads the embedder from the document's meta, the Model
\* its chunks were stored with
get_content(rows, u, page, chunk_scores) ==
    IF Len(chunk_scores) > 0
    THEN LET p == IF page > Len(chunk_scores) THEN 0 ELSE page
         IN  IF p + 1 \notin DOMAIN chunk_scores
             THEN <<>>
             ELSE LET cs == chunk_scores[p + 1]
                      before_content ==
                          JoinContent(get_chunk_by_ids(rows, cs.embedder, u, before_ids(cs.chunk_id)))
                      after_content ==
                          JoinContent(get_chunk_by_ids(rows, cs.embedder, u, after_ids(cs.chunk_id)))
                  IN  <<<<Piece(before_content, 0, 0, "text"),
                          Piece(<<content_without_overlap(
                                     [document_uuid |-> u, chunk_id |-> cs.chunk_id])>>,
                                cs.chunk_id, cs.score, "extract"),
                          Piece(after_content, 0, 0, "text")>>,
                        Len(chunk_scores)>>
    ELSE <<<<Piece(JoinContent(get_chunk_by_ids(rows, Model, u, request_chunk_ids(page))),
                   0, 0, "text")>>,
           total_batches(get_chunk_count(rows, Model, u))>>

\* a call of get_content
GetContent(u, page, chunk_scores) ==
    LET r == get_content(chunks, u, page, chunk_scores)
    IN  /\ result' = [Outcome("get_content",
                              <<[uuid |-> u, page |-> page, chunk_scores |-> chunk_scores]>>,
                              <<>>, r = <<>>)
                         EXCEPT !.rows = r]
        /\ UNCHANGED <<poolVars, moreVars, importVars, configVars, reset>>

\* documents in chunks, and no call yet
InitContent ==
    /\ PoolInit
    /\ NoImport
    /\ NoSearch
    /\ NoConfig
    /\ NoMore
    /\ \E s \in Contents : documents = s.documents /\ chunks = s.chunks

ContentNext ==
    \E u \in {1, 2}, page \in 0..2 :
        \E chunk_scores \in ChunkScores(chunks, u) : GetContent(u, page, chunk_scores)

SpecContent == InitContent /\ [][ContentNext]_vars

\* vector_search's threshold: float = 0.7, in tenths
threshold == 7

\* a row of document_chunks for the query of the searches: similarity is
\* 1 - (c.embedding <=> query) in tenths, <<>> for a NULL embedding, and rank
\* is ts_rank_cd(to_tsvector(c.content), plainto_tsquery(query_text)) in
\* tenths, 0 when the content does not match the query text
RailwayChunks(id) == [id : {id}, similarity : {NULL, <<2>>, <<5>>, <<9>>}, rank : {0, 6}]

\* the tables searched
RailwayCorpora ==
    {{}} \cup {{c} : c \in RailwayChunks(1)}
         \cup {{c, d} : c \in RailwayChunks(1), d \in RailwayChunks(2)}

\* alpha, in tenths
Alphas == {0, 5, 10}

\* ORDER BY score DESC (ORDER BY c.embedding <=> $1 for the similarity as
\* score): rows of one score in any order
OrderByScore(rows) ==
    {s \in [1..Cardinality(rows) -> rows] :
        /\ \A i, j \in DOMAIN s : s[i] = s[j] => i = j
        /\ \A i, j \in DOMAIN s : i < j => s[i].score >= s[j].score}

\* RailwayPostgresManager.vector_search: WHERE c.embedding IS NOT NULL AND
\* 1 - (c.embedding <=> $1) > $2 ORDER BY c.embedding <=> $1 LIMIT limit
vector_search(table, limit) ==
    {Limit(s, limit) :
        s \in OrderByScore({[id |-> c.id, score |-> c.similarity[1]] :
                c \in {x \in table : x.similarity # NULL /\ x.similarity[1] > threshold}})}

\* hybrid_search_chunks: WHERE c.embedding IS NOT NULL AND (the content
\* matches the query text OR 1 - (c.embedding <=> query_vector) > 0.3), the
\* score alpha * similarity + (1 - alpha) * rank (in hundredths),
\* ORDER BY score DESC LIMIT match_limit
hybrid_search_chunks(table, match_limit, alpha) ==
    {Limit(s, match_limit) :
        s \in OrderByScore({[id |-> c.id,
                            score |-> alpha * c.similarity[1] + (10 - alpha) * c.rank] :
                c \in {x \in table : x.similarity # NULL
                                     /\ (x.rank > 0 \/ x.similarity[1] > 3)}})}

\* a call of RailwayPostgresManager.vector_search with the default threshold
VectorSearch(limit) ==
    /\ \E rows \in vector_search(document_chunks, limit) :
          found' = [found EXCEPT !.vector_search = Found(limit, 10, rows)]
    /\ UNCHANGED <<nonRailwayVars, document_chunks>>

\* a call of RailwayPostgresManager.hybrid_search
HybridSearch(limit, alpha) ==
    /\ \E rows \in hybrid_search_chunks(document_chunks, limit, alpha) :
          found' = [found EXCEPT !.hybrid_search = Found(limit, alpha, rows)]
    /\ UNCHANGED <<nonRailwayVars, document_chunks>>

\* a table of chunks, and no search yet
InitRailway ==
    /\ PoolInit
    /\ ImportInit
    /\ NoSearch
    /\ NoConfig
    /\ NoHash
    /\ NoSuggest
    /\ NoManagers
    /\ NoStream
    /\ document_chunks \in RailwayCorpora
    /\ found = [vector_search |-> Found(0, 0, <<>>), hybrid_search |-> Found(0, 0, <<>>)]

RailwayNext ==
    \/ \E limit \in 1..MaxLimit : VectorSearch(limit)
    \/ \E limit \in 1..MaxLimit, alpha \in Alphas : HybridSearch(limit, alpha)

SpecRailway == InitRailway /\ [][RailwayNext]_vars

\* add_suggestion is called at most this many times in one run
MaxAdds == 6

\* the query texts of the calls
Queries == {"q1", "q2"}

\* the unique indexes and constraints of verba_suggestions on (query), which
\* ON CONFLICT (query) needs for its arbiter: the table has its primary key
\* on uuid, and idx_suggestions_query is not unique
Arbiters == {}

\* INSERT INTO verba_suggestions (query, count, updated_at) VALUES ($1, 1,
\* NOW()) ON CONFLICT (query) DO UPDATE SET count = count + 1: the rows
\* afterwards; PostgreSQL rejects the statement when (query) has no arbiter
add_suggestion(rows, query) ==
    IF Arbiters = {}
    THEN [raised |-> TRUE, rows |-> rows]
    ELSE [raised |-> FALSE,
          rows |-> IF \E r \in rows : r.query = query
                   THEN {IF r.query = query THEN [r EXCEPT !.count = @ + 1] ELSE r : r \in rows}
                   ELSE rows \cup {[query |-> query, count |-> 1]}]

\* a call of add_suggestion, one statement
AddSuggestion(query) ==
    /\ Len(added) < MaxAdds
    /\ added' = Append(added, query)
    /\ suggestions' = add_suggestion(suggestions, query).rows
    /\ UNCHANGED nonSuggestVars

InitSuggest ==
    /\ PoolInit
    /\ ImportInit
    /\ NoSearch
    /\ NoConfig
    /\ NoMore

SuggestNext == \E query \in Queries : AddSuggestion(query)

SpecSuggest == InitSuggest /\ [][SuggestNext]_vars

\* the stage managers are called at most this many times in one run
MaxInvokes == 2

\* the stage managers, by the word their messages have for the stage
Managers == {"Reader", "Chunker", "Embedder", "Retriever", "Generator"}

\* the names in a manager's registry, and the names managers are called with
Registered == {"c1", "c2"}
Names == {"c1", "c9"}

\* what the named component does when called: it returns, or raises an
\* exception with a message (the words of the message, in order)
Behaviours ==
    {[raises |-> FALSE, message |-> <<>>],
     [raises |-> TRUE, message |-> <<"connection", "refused">>]}

\* the call of a manager returned what the component returned
ManagerReturned(value) == [raised |-> FALSE, message |-> <<>>, value |-> value]

\* the call of a manager raised an exception with that message
ManagerRaised(message) == [raised |-> TRUE, message |-> message, value |-> "None"]

\* ReaderManager.load: raise Exception(f"Reader {reader} not found") for a
\* name not in self.readers, and except Exception as e: raise
\* Exception(f"Reader {reader} failed with: {str(e)}")
load(reader, behaviour) ==
    IF reader \in Registered
    THEN IF behaviour.raises
         THEN ManagerRaised(<<"Reader", reader, "failed", "with:">> \o behaviour.message)
         ELSE ManagerReturned("documents")
    ELSE ManagerRaised(<<"Reader", reader, "failed", "with:", "Reader", reader, "not", "found">>)

\* ChunkerManager.chunk, EmbeddingManager.embed, RetrieverManager.retrieve,
\* GeneratorManager.generate: raise Exception(f"{name} {Stage} not found")
\* for a name not in the registry, and except Exception as e: raise e
invoke(manager, name, behaviour) ==
    IF name \in Registered
    THEN IF behaviour.raises
         THEN ManagerRaised(behaviour.message)
         ELSE ManagerReturned("value")
    ELSE ManagerRaised(<<name, manager, "not", "found">>)

\* a stage manager is called with the name of a component
Invoke(manager, name, behaviour) ==
    /\ Len(invoked) < MaxInvokes
    /\ invoked' = Append(invoked,
                         [manager |-> manager, name |-> name, behaviour |-> behaviour,
                          outcome |-> IF manager = "Reader"
                                      THEN load(name, behaviour)
                                      ELSE invoke(manager, name, behaviour)])
    /\ UNCHANGED nonManagerVars

InitManagers ==
    /\ PoolInit
    /\ ImportInit
    /\ NoSearch
    /\ NoConfig
    /\ NoMore

ManagersNext ==
    \E manager \in Managers, name \in Names, behaviour \in Behaviours :
        Invoke(manager, name, behaviour)

SpecManagers == InitManagers /\ [][ManagersNext]_vars

\* the most fragments a generator yields before its last
MaxFragments == 3

\* a fragment a generator yields: chunk["message"], chunk["finish_reason"]
\* ("None" for None) and chunk.get("type") ("" when the key is absent)
Fragment(message, finish_reason, type) ==
    [message |-> message, finish_reason |-> finish_reason, type |-> type]

\* the fragments before the last: content, with and without the type key,
\* reasoning, thinking and the transition marker
Deltas ==
    {Fragment("a", "None", "content"), Fragment("b", "None", ""),
     Fragment("r", "None", "reasoning"), Fragment("h", "None", "thinking"),
     Fragment("t", "None", "transition")}

\* the last fragment: message_stop or the finish_reason of the last choice
\* ("stop", "length"), or the generator's except clause
Finals ==
    {Fragment("", "stop", ""), Fragment("", "length", ""), Fragment("e", "error", "")}

\* what a generator's generate_stream yields
Streams ==
    UNION {{fs \o <<f>> : fs \in [1..n -> Deltas], f \in Finals} : n \in 0..MaxFragments}

\* the chunk as send_json sends it: full_text and reasoning_text are <<>>
\* when the key is not set, else <<its text>>
Chunk(chunk, full, reasoning) ==
    [message |-> chunk.message, finish_reason |-> chunk.finish_reason, type |-> chunk.type,
     full_text |-> full, reasoning_text |-> reasoning]

\* a payload arrives: full_text = "", reasoning_text = "", and
\* manager.generate_stream_answer(...) is called; when the call raises, the
\* except clause sends {"message": str(e), "finish_reason": "stop",
\* "full_text": str(e)}.  (unified_verba_manager.VerbaManager, the manager of
\* api.py, has no generate_stream_answer: with it the call raises.)
StreamCall ==
    /\ upstream.pc = "idle"
    /\ full_text' = ""
    /\ reasoning_text' = ""
    /\ IF upstream.raises
       THEN /\ sent' = Append(sent, Chunk(Fragment("e", "stop", ""), <<"e">>, <<>>))
            /\ upstream' = [upstream EXCEPT !.pc = "done"]
       ELSE /\ sent' = sent
            /\ upstream' = [upstream EXCEPT !.pc = "streaming"]
    /\ UNCHANGED nonStreamVars

\* chunk.get("type") == "reasoning" or chunk.get("type") == "thinking"
Reasoning(chunk) == chunk.type \in {"reasoning", "thinking"}

\* the elif: chunk.get("type") != "transition", for a chunk that is no reasoning
Answer(chunk) == ~Reasoning(chunk) /\ chunk.type # "transition"

\* one round of the async for: the chunk is added to reasoning_text or to
\* full_text, gets full_text (and reasoning_text, when there is any) if its
\* finish_reason is "stop", and is sent
Relay ==
    LET chunk == Head(upstream.fragments)
        reasoning == IF Reasoning(chunk) THEN reasoning_text \o chunk.message ELSE reasoning_text
        full == IF Answer(chunk) THEN full_text \o chunk.message ELSE full_text
    IN  /\ upstream.pc = "streaming"
        /\ upstream.fragments # <<>>
        /\ reasoning_text' = reasoning
        /\ full_text' = full
        /\ sent' = Append(sent,
                          IF chunk.finish_reason = "stop"
                          THEN Chunk(chunk, <<full>>, IF reasoning # "" THEN <<reasoning>> ELSE <<>>)
                          ELSE Chunk(chunk, <<>>, <<>>))
        /\ upstream' = [upstream EXCEPT !.fragments = Tail(@)]
        /\ UNCHANGED nonStreamVars

\* the stream is exhausted: the async for ends
StreamEnd ==
    /\ upstream.pc = "streaming"
    /\ upstream.fragments = <<>>
    /\ upstream' = [upstream EXCEPT !.pc = "done"]
    /\ UNCHANGED <<nonStreamVars, sent, full_text, reasoning_text>>

\* a generate request: the call raises, or a generator's stream is relayed
InitStream ==
    /\ PoolInit
    /\ ImportInit
    /\ NoSearch
    /\ NoConfig
    /\ NoHash
    /\ NoRailway
    /\ NoSuggest
    /\ NoManagers
    /\ upstream \in {[pc |-> "idle", raises |-> TRUE, fragments |-> <<>>]}
                    \cup [pc : {"idle"}, raises : {FALSE}, fragments : Streams]
    /\ sent = <<>>
    /\ full_text = ""
    /\ reasoning_text = ""

StreamNext ==
    \/ StreamCall
    \/ Relay
    \/ StreamEnd

SpecStream == InitStream /\ [][StreamNext]_vars

\* the credentials whose keys are compared: no field is blank
Triples == [deployment : {"L", "D"}, url : {"u", "u:k"}, key : {"z", "k:z"}]

\* connect up to the lookup: the fallback for blank fields, then
\* cred_hash = self.hash_credentials(_credentials)
HashCredentials ==
    /\ Len(cred_hash) < Len(credentials)
    /\ cred_hash' = Append(cred_hash, hash_credentials(Fallback(credentials[Len(cred_hash) + 1])))
    /\ UNCHANGED <<nonHashVars, credentials>>

\* two calls of connect, with any two credentials
InitHash ==
    /\ PoolInit
    /\ ImportInit
    /\ NoSearch
    /\ NoConfig
    /\ NoRailway
    /\ NoSuggest
    /\ NoManagers
    /\ NoStream
    /\ credentials \in Triples \X Triples
    /\ cred_hash = <<>>

HashNext == HashCredentials

SpecHash == InitHash /\ [][HashNext]_vars

\* the registry builds b; the row holds nothing, or a tree written earlier
InitLoad ==
    /\ PoolInit
    /\ ImportInit
    /\ NoSearch
    /\ NoMore
    /\ production \in Productions
    /\ a = NULL
    /\ b \in LoadTrees
    /\ verified = {}
    /\ verba_config \in {NULL} \cup {set_config(tree) : tree \in LoadTrees}
    /\ rag = IdleLoad

LoadNext ==
    \/ LoadCall
    \/ LoadResume
    \/ LoadSet

SpecLoad == InitLoad /\ [][LoadNext]_vars

(***************************************************************************)
(* Claims about the pool cache.                                            *)
(***************************************************************************)
\* the hashes and the pools a sweep selected
SelectedKeys(c) == {e[1] : e \in c.selected}
SelectedPools(c) == {e[2] : e \in c.selected}

\* C1: when two connect calls for the same uncached hash overlap, at most
\* one of them creates a pool, both return the same pool, and once both are
\* over no pool they created is open without a cache entry holding it.
C1_SingleFlight ==
    \A t \in ConnTasks : \A u \in peers[t] :
        /\ ~(conn[t].own # None /\ conn[u].own # None)
        /\ (~InFlight(t) /\ ~InFlight(u)) =>
              /\ conn[t].outcome = "returned" /\ conn[u].outcome = "returned"
                    => conn[t].result = conn[u].result
              /\ \A p \in {conn[t].own, conn[u].own} \ {None} :
                    ~Closed(p) => \E i \in LiveIdx(pools) : pools[i].pool = p

\* C2: every pool connect returns is open when it is returned (so a pool
\* closed by a sweep, by disconnect or by itself is never returned again).
C2_ReturnedPoolIsOpen ==
    \A t \in ConnTasks :
        (~InFlight(t) /\ conn[t].outcome = "returned" /\ conn[t].result # None)
            => conn[t].wasOpen

C4_SweepEvicts ==
    \A t \in CleanTasks :
        /\ clean[t].outcome # "KeyError"
        /\ clean[t].outcome = "swept" =>
              \A e \in clean[t].selected :
                  /\ e[2] # None => Closed(e[2])
                  /\ ~(Has(pools, e[1]) /\ Entry(pools, e[1]).pool = e[2])

\* C5: while a connect call for a hash k that a sweep did not select is in
\* flight, no step of that sweep closes a pool other than those of the
\* entries it selected (so not k's), nor removes another entry than those.
C5_SweepLeavesOthersAlone ==
    [][\A c \in CleanTasks : \A t \in ConnTasks :
        (clean'[c] # clean[c] /\ InFlight(t)
            /\ conn[t].hash \notin SelectedKeys(clean'[c])) =>
              /\ \A p \in DOMAIN created :
                    (created'[p].closed /\ ~created[p].closed)
                        => p \in SelectedPools(clean'[c])
              /\ Keys(pools) \ Keys(pools') \subseteq SelectedKeys(clean'[c])
              /\ clean'[c].removed \subseteq SelectedKeys(clean'[c])
      ]_vars

\* C6: a connect call that ends without a pool ends by raising, and leaves
\* the cache as it was: no entry added, none changed.
C6_FailureNotCached ==
    [][\A t \in ConnTasks :
        (InFlight(t) /\ ~InFlight(t)' /\ conn'[t].result = None) =>
              /\ conn'[t].outcome = "raised"
              /\ pools' = pools
      ]_vars

\* C7: once disconnect has returned, every pool that was cached when it was
\* called is closed.
C7_DisconnectClosesAll ==
    \A d \in DiscTasks :
        disc[d].outcome = "returned" => \A p \in disc[d].snapshot : Closed(p)

\* C8: a call of clean_up sweeps only if no sweep began less than
\* cleanup_interval minutes before it, also when calls overlap.
C8_OneSweepPerInterval ==
    [][\A t \in CleanTasks :
        (~Sweeping(t) /\ clean'[t] # clean[t] /\ clean'[t].outcome # "skipped") =>
              (lastSweep = -1 \/ now - lastSweep >= cleanup_interval)
      ]_vars
Existed(title) == \E d \in documents : d.title = title

\* C10: an import with overwrite=false whose file's title is in the store
\* when it looks ends at once with the 'already exists' error, reported as
\* an ERROR event, and so does each of its documents whose title is in the
\* store when the document is looked up; no step of such an import removes
\* or changes a stored document or chunk.
C10_DuplicateRefused ==
    [][\A t \in ImportTasks :
        /\ (~Importing(t) /\ imp'[t] # imp[t] /\ ~imp'[t].overwrite
                /\ Existed(imp'[t].filename)) =>
              /\ imp'[t].pc = "done"
              /\ imp'[t].outcome = "ERROR"
              /\ imp'[t].reason = "already exists"
              /\ imp'[t].reports = <<"ERROR">>
              /\ documents' = documents /\ chunks' = chunks
        /\ \A k \in DOMAIN imp[t].tasks :
              (imp[t].tasks[k].pc = "check" /\ imp'[t].pc = "gather"
                  /\ imp'[t].tasks[k] # imp[t].tasks[k] /\ ~imp[t].overwrite
                  /\ Existed(imp[t].tasks[k].title)) =>
                    /\ imp'[t].tasks[k].pc = "raised"
                    /\ imp'[t].tasks[k].reason = "already exists"
                    /\ Reported(imp'[t].tasks[k]) = <<"ERROR">>
                    /\ documents' = documents /\ chunks' = chunks
        /\ (imp'[t] # imp[t]
                /\ ~(IF Importing(t) THEN imp[t].overwrite ELSE imp'[t].overwrite)) =>
              /\ documents \subseteq documents'
              /\ chunks \subseteq chunks'
      ]_vars

\* C10's case: an import was refused with 'already exists' and reported
\* ERROR, and the document with its file's title is stored with its chunks
C10_Witness ==
    \E t \in ImportTasks :
        /\ imp[t].pc = "done" /\ imp[t].outcome = "ERROR"
        /\ imp[t].reason = "already exists" /\ imp[t].reports = <<"ERROR">>
        /\ \E d \in documents :
              /\ d.title = imp[t].filename
              /\ Cardinality({c \in chunks : c.document_uuid = d.uuid}) = ChunkCount(d.title)
\* The documents stored under a title, and the chunk ids stored for a document.
Titled(docs, title) == {d \in docs : d.title = title}
ChunkIds(rows, u) == {c.chunk_id : c \in {r \in rows : r.document_uuid = u}}

\* The documents an import found under the title of its k-th document: by
\* the check of import_document when the title is the file's name, and by the
\* check of process_single_document.
Prior(t, k) ==
    ({imp[t].tasks[k].duplicate_uuid}
        \cup (IF imp[t].tasks[k].title = imp[t].filename
              THEN {imp[t].duplicate_uuid} ELSE {})) \ {None}

ChunksOf(rows, u) == {c \in rows : c.document_uuid = u}

\* C12: an import of a document by the store is all-or-nothing: when it
\* succeeds the document row exists and as many chunks are stored for it as
\* the document has; when it fails neither the row nor a chunk of it is stored.
C12_AllOrNothing ==
    [][loaded' # loaded =>
          LET r == result'
              u == r.uuids[1]
          IN  IF r.raised
              THEN /\ \A d \in documents' : d.uuid # u
                   /\ ChunksOf(chunks', u) = {}
              ELSE /\ \E d \in documents' : d.uuid = u
                   /\ Cardinality(ChunksOf(chunks', u)) = Len(r.documents[1].chunks)]_vars

\* C12 for PostgreSQLManager.import_document alone.
C12_PostgreSQLAllOrNothing ==
    [][(loaded' # loaded /\ result'.call = "import_document") =>
          LET r == result'
              u == r.uuids[1]
          IN  IF r.raised
              THEN /\ \A d \in documents' : d.uuid # u
                   /\ ChunksOf(chunks', u) = {}
              ELSE /\ \E d \in documents' : d.uuid = u
                   /\ Cardinality(ChunksOf(chunks', u)) = Len(r.documents[1].chunks)]_vars

\* C13: whatever imports and deletes (delete_document, delete_all_documents,
\* delete_all) have run, every stored chunk references a stored document.
C13_NoOrphanChunks ==
    \A c \in chunks : \E d \in documents : d.uuid = c.document_uuid

\* A document that was stored with its chunks has been deleted since.
C13_Witness ==
    /\ result.call = "import_document"
    /\ ~result.raised
    /\ Len(result.documents[1].chunks) > 0
    /\ \A d \in documents : d.uuid # result.uuids[1]
    /\ ChunksOf(chunks, result.uuids[1]) = {}

\* The documents of import t that process_single_document has stored.
Succeeded(t) == {k \in DOMAIN imp[t].tasks : imp[t].tasks[k].pc = "returned"}

StageOrder ==
    {<<"check", "delete">>, <<"check", "chunk">>, <<"delete", "chunk">>,
     <<"chunk", "embed">>, <<"embed", "store">>, <<"store", "returned">>}
    \cup {<<stage, "raised">> : stage \in {"check", "delete", "chunk", "embed", "store"}}

Counted(values) ==
    [v \in Range(values) |-> Cardinality({i \in DOMAIN values : values[i] = v})]
SchemaOfConfig(config) ==
    [i \in DOMAIN config |->
        <<config[i][1], config[i][2].description, Counted(config[i][2].values)>>]
SchemaOfComponents(components) ==
    [i \in DOMAIN components |->
        <<components[i][1], SchemaOfConfig(components[i][2].config)>>]
Schema(tree) ==
    [i \in DOMAIN tree |-> <<tree[i][1], SchemaOfComponents(tree[i][2].components)>>]

\* C16: verify_config returns True for two trees that are the same but for
\* the current values of their options and the order in which the allowed
\* values of an option are listed.
C16_ValuesIgnored ==
    (verified # {} /\ Schema(a) = Schema(b)) => verified = {TRUE}

\* verify_config has accepted two trees that differ in a current value and in
\* the order of the allowed values of an option.
C16_Witness ==
    /\ verified = {TRUE}
    /\ production # "Demo"
    /\ Schema(a) = Schema(b)
    /\ \E i \in DOMAIN a : \E j \in DOMAIN a[i][2].components :
          \E k \in DOMAIN a[i][2].components[j][2].config :
             LET x == a[i][2].components[j][2].config[k][2]
                 y == b[i][2].components[j][2].config[k][2]
             IN  x.value # y.value /\ x.values # y.values

\* Two options, each a key with its setting, differ in the key, in the
\* description or in the set of the allowed values.
OptionDiffers(x, y) ==
    \/ x[1] # y[1]
    \/ x[2].description # y[2].description
    \/ Range(x[2].values) # Range(y[2].values)

\* Some component that both trees have, under the same type, has at some
\* position of its config an option that differs from the other tree's.
SomeOptionDiffers(a_tree, b_tree) ==
    \E type \in Range(KeysOf(a_tree)) \cap Range(KeysOf(b_tree)) :
        LET a_component == At(a_tree, type).components
            b_component == At(b_tree, type).components
        IN  \E name \in Range(KeysOf(a_component)) \cap Range(KeysOf(b_component)) :
                LET a_config == At(a_component, name).config
                    b_config == At(b_component, name).config
                IN  \E i \in DOMAIN a_config \cap DOMAIN b_config :
                        OptionDiffers(a_config[i], b_config[i])

\* C17 as claimed: verify_config returns False whenever an option at the
\* same position of the same component differs in its key, its description
\* or the set of its allowed values.
C17_MismatchRejected ==
    (verified # {} /\ SomeOptionDiffers(a, b)) => verified = {FALSE}

\* C17, amended: outside Demo mode, verify_config returns False whenever an
\* option at the same position of the same component differs in its key, its
\* description or the set of its allowed values.
C17_MismatchRejectedOutsideDemo ==
    (verified # {} /\ production # "Demo" /\ SomeOptionDiffers(a, b)) => verified = {FALSE}

\* Outside Demo mode verify_config has rejected two trees that are the same
\* but for the description of one option.
C17_Witness ==
    /\ verified = {FALSE}
    /\ production # "Demo"
    /\ SomeOptionDiffers(a, b)
    /\ KeysOf(a) = KeysOf(b)
    /\ \A i \in DOMAIN a :
          /\ KeysOf(a[i][2].components) = KeysOf(b[i][2].components)
          /\ \A j \in DOMAIN a[i][2].components :
                LET a_config == a[i][2].components[j][2].config
                    b_config == b[i][2].components[j][2].config
                IN  /\ KeysOf(a_config) = KeysOf(b_config)
                    /\ \A k \in DOMAIN a_config : a_config[k][2].values = b_config[k][2].values

\* C18: a call of load_rag_config that finds a persisted tree verify_config
\* accepts returns that tree as it is and writes nothing; one that finds a
\* tree verify_config rejects writes the new tree and returns it, and the
\* call that follows it returns the same tree and writes nothing.
C18_LoadSettles ==
    \A i \in DOMAIN rag.calls :
        LET c == rag.calls[i]
        IN  /\ (c.loaded_config # NULL /\ c.accepted)
               => c.returned = c.loaded_config[1] /\ ~c.wrote
            /\ (c.loaded_config # NULL /\ ~c.accepted)
               => /\ c.wrote
                  /\ c.returned = b
                  /\ (i + 1) \in DOMAIN rag.calls
                     => /\ rag.calls[i + 1].returned = c.returned
                        /\ ~rag.calls[i + 1].wrote

\* the chunks of the corpus a returned row stands for
Returned(row) == {c \in chunks : c.document_uuid = row.doc_uuid /\ c.chunk_id = row.chunk_id}

\* C19: a call similarity_search(v, e, k) returns, and what it returns are at
\* most k results in non-increasing order of score, results of one score in
\* ascending order of their chunk identifier; called again with the same
\* arguments on the unchanged corpus it returns the same sequence.
C19_SearchOrdered ==
    [][result'.call = "PostgreSQLManager.similarity_search" =>
          LET rows == result'.rows
              search == result'.documents[1]
          IN  /\ ~result'.raised
              /\ Len(rows) <= search.limit
              /\ \A i, j \in DOMAIN rows :
                    i < j => \/ rows[i].score > rows[j].score
                             \/ /\ rows[i].score = rows[j].score
                                /\ <<rows[i].doc_uuid, rows[i].chunk_id>> # <<rows[j].doc_uuid, rows[j].chunk_id>>
                                /\ \/ rows[i].doc_uuid < rows[j].doc_uuid
                                   \/ /\ rows[i].doc_uuid = rows[j].doc_uuid
                                      /\ rows[i].chunk_id < rows[j].chunk_id
              /\ (result.call = result'.call /\ result.documents = result'.documents)
                 => result'.rows = result.rows]_vars

\* C20: no search returns a chunk that is stored with a NULL vector,
\* whatever the query vector, the limit and the filters.
C20_NullVectorNeverReturned ==
    \A i \in DOMAIN result.rows : \A c \in Returned(result.rows[i]) : c.vector # NULL

\* a search of the function returned rows and left room under its limit,
\* while a chunk with a NULL vector has its embedder and passes its filters
C20_Witness ==
    /\ result.call = "similarity_search"
    /\ result.rows # <<>>
    /\ Len(result.rows) < result.documents[1].limit
    /\ \E r \in Join(Store, result.documents[1].vector) :
          /\ r.c.vector = NULL
          /\ r.c.embedder = result.documents[1].embedder
          /\ result.documents[1].labels = NULL \/ r.d.labels \cap result.documents[1].labels[1] # {}
          /\ result.documents[1].document_uuids = NULL
             \/ r.d.uuid \in result.documents[1].document_uuids[1]

\* C29: verify_config returns True only if the two trees have the same stage
\* keys in the same order, so the same number of stages, the same component
\* names under every stage and the same option keys under every component;
\* stated for the calls outside Demo mode, where verify_config tests the trees.
C29_AcceptedSameKeys ==
    (verified = {TRUE} /\ production # "Demo")
    => /\ KeysOf(a) = KeysOf(b)
       /\ \A i \in DOMAIN a :
             /\ KeysOf(a[i][2].components) = KeysOf(b[i][2].components)
             /\ \A j \in DOMAIN a[i][2].components :
                   KeysOf(a[i][2].components[j][2].config)
                   = KeysOf(b[i][2].components[j][2].config)

\* C28: two credentials that differ in the deployment, the url or the key
\* never have the same cred_hash, the key under which connect caches and
\* looks up a pool.
C28_DistinctKeys ==
    (Len(cred_hash) = 2 /\ credentials[1] # credentials[2]) => cred_hash[1] # cred_hash[2]

\* the DONE and ERROR reports in a record of reports
Terminals(reports) == {n \in DOMAIN reports : reports[n] \in {"DONE", "ERROR"}}

\* the DONE and ERROR reports made under a fileID when an import with that
\* isURL ends: its own, and one of each gathered coroutine that reports under it
TerminalsFor(id, i, isURL, reports) ==
    Cardinality({k \in DOMAIN i.tasks : ReportID(i.fileID, isURL, i.tasks[k].title) = id})
    + (IF id = i.fileID THEN Cardinality(Terminals(reports)) ELSE 0)

\* C27: when an import ends, every fileID it reported under has received
\* exactly one DONE or ERROR report, and no report after it.
C27_OneTerminalReport ==
    [][\A t \in ImportTasks :
          (imp[t].pc = "gather" /\ imp'[t].pc = "done") =>
             \A isURL \in BOOLEAN :
                \A id \in {imp[t].fileID}
                          \cup {ReportID(imp[t].fileID, isURL, imp[t].tasks[k].title) :
                                   k \in DOMAIN imp[t].tasks} :
                   /\ TerminalsFor(id, imp[t], isURL, imp'[t].reports) = 1
                   /\ Terminals(imp'[t].reports) = {Len(imp'[t].reports)}
      ]_vars

\* C30: an import that ends with an ERROR report, no other request having
\* been served meanwhile, leaves the stored documents and chunks as they
\* were when it was called, also when it was to overwrite a stored document.
C30_ErrorLeavesStore ==
    \A t \in ImportTasks :
        (imp[t].pc = "done" /\ imp[t].outcome = "ERROR" /\ requests = 1)
        => Store = imp[t].before

\* the chunks of a result, in its order
Ids(rows) == [i \in DOMAIN rows |-> rows[i].id]

\* the rank of the chunk with that id
RankOf(id) == (CHOOSE c \in document_chunks : c.id = id).rank

\* C21: for one table, query and limit, hybrid_search with alpha = 1.0
\* returns the chunks vector_search returns, in the same order, and with
\* alpha = 0.0 it returns its chunks in non-increasing order of lexical rank.
C21_HybridExtremes ==
    /\ (found.hybrid_search.limit > 0 /\ found.hybrid_search.alpha = 10
        /\ found.vector_search.limit = found.hybrid_search.limit)
       => Ids(found.hybrid_search.rows) = Ids(found.vector_search.rows)
    /\ (found.hybrid_search.limit > 0 /\ found.hybrid_search.alpha = 0)
       => \A i, j \in DOMAIN found.hybrid_search.rows :
             i < j => RankOf(found.hybrid_search.rows[i].id)
                      >= RankOf(found.hybrid_search.rows[j].id)

\* the ids from lo to hi that chunks of document u have, in ascending order
Existing(u, lo, hi) ==
    LET ids == {c.chunk_id : c \in {x \in chunks : x.document_uuid = u}} \cap lo..hi
    IN  [k \in 1..Cardinality(ids) |->
            CHOOSE i \in ids : Cardinality({j \in ids : j < i}) = k - 1]

\* the texts of those chunks of document u, one after the other
TextOf(u, lo, hi) == [k \in DOMAIN Existing(u, lo, hi) |-> <<u, Existing(u, lo, hi)[k]>>]

\* the latest call of get_content, when it has returned
Windowed ==
    /\ result.call = "get_content" /\ ~result.raised
    /\ result.documents[1].chunk_scores # <<>>

Paged ==
    /\ result.call = "get_content" /\ ~result.raised
    /\ result.documents[1].chunk_scores = <<>>

\* C22: for the matched chunk i of a document the windowed branch returns
\* three pieces: the texts of the document's existing chunks among the five
\* indices below i, the matched chunk, and the texts of its existing chunks
\* among the five indices above i, each in ascending order of index.
C22_Window ==
    Windowed =>
        LET u == result.documents[1].uuid
            pieces == result.rows[1]
            i == pieces[2].chunk_id
        IN  /\ Len(pieces) = 3
            /\ pieces[1].content = TextOf(u, i - 5, i - 1)
            /\ pieces[2].content = <<<<u, i>>>>
            /\ pieces[3].content = TextOf(u, i + 1, i + 5)

C24_OneRowPerQuery ==
    \A query \in {added[n] : n \in DOMAIN added} :
        /\ Cardinality({r \in suggestions : r.query = query}) = 1
        /\ \A r \in suggestions :
              r.query = query => r.count = Cardinality({n \in DOMAIN added : added[n] = query})

\* C25: a stage manager called with a name that is not in its registry, or
\* whose named component raises, raises an error whose message has the name
\* of the component in it; it returns no null result.
C25_FailureNamesComponent ==
    \A n \in DOMAIN invoked :
        LET c == invoked[n]
        IN  /\ (c.name \notin Registered \/ c.behaviour.raises)
               => /\ c.outcome.raised
                  /\ \E k \in DOMAIN c.outcome.message : c.outcome.message[k] = c.name
            /\ ~c.outcome.raised => c.outcome.value # "None"

\* the messages of the fragments of fs that are in kinds, one after the other
RECURSIVE TextOfKinds(_, _)
TextOfKinds(fs, kinds) ==
    IF fs = <<>>
    THEN ""
    ELSE (IF Head(fs).type \in kinds THEN Head(fs).message ELSE "")
         \o TextOfKinds(Tail(fs), kinds)

====
